---- MODULE Spec2Model ----
(***************************************************************************)
(* Model of the cache-aware partition fetcher of xatu-dashboard            *)
(* (src/utils.py: load_xatu_data, load_xatu_data_range) and of the         *)
(* dashboard entry point that drives it (block_arrival/main.py: render).   *)
(*                                                                         *)
(* One caller runs at a time (the program is single-threaded).  Every      *)
(* statement of load_xatu_data that touches the disk or the network is a   *)
(* step of its own, so that the order of the effects is visible.           *)
(***************************************************************************)
EXTENDS Integers, Sequences, FiniteSets, TLC

(***************************************************************************)
(* Bounds of the model.                                                    *)
(***************************************************************************)
\* number of consecutive calendar days the callers may ask for
NumDays == 3
\* day-of-year of the first of those days (30 = January 30th, so that the
\* days modelled cross a month boundary)
FirstDay == 30
\* the calendar year of those days
Year == 2024

(***************************************************************************)
(* Values.                                                                 *)
(***************************************************************************)
\* Python's None
None == [none |-> TRUE]

\* datetime.date, kept as its ordinal (day of Year)
Date(n) == [ordinal |-> n]
Dates == {Date(n) : n \in FirstDay..(FirstDay + NumDays - 1)}

IsLeap(y) == (y % 4 = 0 /\ y % 100 # 0) \/ y % 400 = 0

DaysInMonth(y, m) ==
    IF m = 2 THEN (IF IsLeap(y) THEN 29 ELSE 28)
    ELSE IF m \in {4, 6, 9, 11} THEN 30 ELSE 31

\* date.year, date.month, date.day of a date
RECURSIVE MonthDay(_, _, _)
MonthDay(y, m, n) ==
    IF n <= DaysInMonth(y, m) \/ m = 12
    THEN [year |-> y, month |-> m, day |-> n]
    ELSE MonthDay(y, m + 1, n - DaysInMonth(y, m))

YMD(date) == MonthDay(Year, 1, date.ordinal)

\* str() of a number, as one token
str(n) == ToString(n)

\* the decimal digits of a natural number, one character each
RECURSIVE Digits(_)
Digits(n) ==
    IF n < 10 THEN <<str(n)>> ELSE Digits(n \div 10) \o <<str(n % 10)>>

\* a number in two decimal digits, zero padded (the %02d of isoformat)
Pad2(n) == <<str(n \div 10), str(n % 10)>>

\* date.isoformat(): YYYY-MM-DD, month and day zero padded, one character
\* each, since two paths are the same file when they are the same string
isoformat(date) ==
    Digits(YMD(date).year) \o <<"-">> \o Pad2(YMD(date).month) \o <<"-">>
        \o Pad2(YMD(date).day)

\* config.py
XATU_BASE_URL == <<"https://data.ethpandaops.io/xatu">>
DATABASE == <<"default">>

\* the networks and tables the callers ask for, as token sequences
Networks == {<<"mainnet">>}
Tables == {<<"beacon_api_eth_v1_events_block">>}

\* a polars DataFrame: a schema and its rows
DataFrame(s, r) == [schema |-> s, rows |-> r]
EmptyFrame == DataFrame("block", <<>>)
\* the partitions a date can have: one row or two, the rows stamped with the
\* date, and the two-row partition in another schema
FrameA(date) == DataFrame("block", <<10 * date.ordinal + 1>>)
FrameB(date) == DataFrame("block_v2", <<10 * date.ordinal + 1, 10 * date.ordinal + 2>>)
DataFrames == {EmptyFrame} \cup {FrameA(d) : d \in Dates} \cup {FrameB(d) : d \in Dates}
len(df) == Len(df.rows)

\* file contents: a parquet encoding of a frame, or bytes that are no parquet
Parquet(df) == <<"PAR1", df, "PAR1">>
Garbage == <<"junk">>
Truncated == <<>>
\* the bytes a partition file of a date can hold
FileBytes(date) ==
    {Parquet(df) : df \in {EmptyFrame, FrameA(date), FrameB(date)}} \cup {Garbage}

\* pl.read_parquet on bytes: the frame, or an exception
read_parquet(bytes) ==
    IF Len(bytes) = 3 /\ bytes[1] = "PAR1" /\ bytes[3] = "PAR1"
    THEN [ok |-> TRUE, df |-> bytes[2]]
    ELSE [ok |-> FALSE, df |-> None]

\* a file of the cache directory
NoFile == [exists |-> FALSE, bytes |-> <<>>]
File(b) == [exists |-> TRUE, bytes |-> b]

\* get_parquet_url
get_parquet_url(network, table, date) ==
    XATU_BASE_URL \o <<"/">> \o network \o <<"/databases/">> \o DATABASE
        \o <<"/">> \o table
        \o <<"/", str(YMD(date).year), "/", str(YMD(date).month),
              "/", str(YMD(date).day), ".parquet">>

CacheFile_NoDate(network, table, date) ==
    <<"data/">> \o network \o <<"_">> \o table \o <<".parquet">>

\* cache_file of load_xatu_data
CacheFile(network, table, date) ==
    <<"data/">> \o network \o <<"_">> \o table \o <<"_">> \o isoformat(date)
        \o <<".parquet">>

Paths == {CacheFile(n, t, d) : n \in Networks, t \in Tables, d \in Dates}

\* what requests.get can answer
StatusCodes == {200, 404, 500}
Responses(date) == [status_code : {200}, content : FileBytes(date)]
                \cup [status_code : StatusCodes \ {200}, content : {Garbage}]
NoResponse == [status_code |-> 0, content |-> <<>>]

\* no call of load_xatu_data running
NoCall == [active |-> FALSE]
\* no call of load_xatu_data_range running
NoRange == [active |-> FALSE]

VARIABLES
    cache,      \* the files of the cache directory, by path
    pc,         \* position of the running load_xatu_data call
    call,       \* its arguments, its locals and a record of what it did
    prev,       \* what the call before it did, when a caller other than
                \* the range loop made both
    rpc,        \* position of the running load_xatu_data_range call
    rng,        \* its arguments, its locals and a record of what it did
    keys,       \* the two partition keys whose cache files are compared
    prep,       \* the running preprocess_data call: its arguments and result
    sect,       \* the client analysis section being rendered: its locals
    procs,      \* the load_xatu_data calls of concurrent sessions, by session
    app         \* the session of app.py: URL parameters and session state

vars == <<cache, pc, call, prev, rpc, rng, keys, prep, sect, procs, app>>

\* no client analysis section being rendered
NoSect == [active |-> FALSE]
\* no concurrent sessions
NoProcs == [active |-> FALSE]
\* no session of app.py
NoApp == [active |-> FALSE]

\* no partition keys under comparison
NoKeys == [active |-> FALSE]
\* no call of preprocess_data running
NoPrep == [active |-> FALSE]

Init ==
    /\ cache \in [Paths -> {NoFile} \cup {File(b) : b \in UNION {FileBytes(d) : d \in Dates}}]
    /\ \A n \in Networks, t \in Tables, d \in Dates :
          cache[CacheFile(n, t, d)] \in {NoFile} \cup {File(b) : b \in FileBytes(d)}
    /\ pc = "idle"
    /\ call = NoCall
    /\ prev = NoCall
    /\ rpc = "idle"
    /\ rng = NoRange
    /\ keys = NoKeys
    /\ prep = NoPrep
    /\ sect = NoSect
    /\ procs = NoProcs
    /\ app = NoApp

(***************************************************************************)
(* load_xatu_data(network, table, date, use_cache)                         *)
(***************************************************************************)
\* the frame of a call: arguments, locals, and what the call has done so far
\* (entry0: the cache file as the call found it; gets, reads, writes: the
\* remote GETs, the reads of the cached file at line 54 and the writes of the
\* cache file it made)
NewCall(network, table, date, use_cache) ==
    [active |-> TRUE, network |-> network, table |-> table, date |-> date,
     use_cache |-> use_cache,
     cache_file |-> IF date = None THEN <<>> ELSE CacheFile(network, table, date),
     url |-> <<>>, response |-> NoResponse,
     result |-> None, raised |-> "",
     entry0 |-> IF date = None THEN NoFile
                ELSE cache[CacheFile(network, table, date)],
     gets |-> 0, reads |-> 0, writes |-> 0, unlinks |-> 0]

\* a caller other than the range loop calls load_xatu_data
CallLoad(network, table, date, use_cache) ==
    /\ pc = "idle" /\ rpc = "idle"
    /\ call' = NewCall(network, table, date, use_cache)
    /\ pc' = "L40"
    /\ UNCHANGED <<cache, prev, rpc, rng, keys, prep, sect, procs, app>>

\* lines 40-48: the date check; cache_dir and cache_file
CheckDate ==
    /\ pc = "L40"
    /\ IF call.date = None
       THEN /\ call' = [call EXCEPT !.raised = "ValueError"]
            /\ pc' = "ret"
       ELSE /\ pc' = "L51"
            /\ UNCHANGED call
    /\ UNCHANGED <<cache, prev, rpc, rng, keys, prep, sect, procs, app>>

\* (changed: the cached file is read whether or not use_cache is set)
UseCachedFile_IgnoreFlag(use_cache, exists) == exists

\* line 51: the condition under which the cached file is read
UseCachedFile(use_cache, exists) == use_cache /\ exists

\* line 51: use_cache and cache_file.exists()
CheckCache ==
    /\ pc = "L51"
    /\ pc' = IF UseCachedFile(call.use_cache, cache[call.cache_file].exists)
             THEN "L54" ELSE "L65"
    /\ UNCHANGED <<cache, call, prev, rpc, rng, keys, prep, sect, procs, app>>

\* (changed: a cached file that reads well is not returned)
CachedRead_NeverHit(r) ==
    IF r.ok
    THEN [return |-> FALSE, result |-> None, unlink |-> FALSE]
    ELSE [return |-> FALSE, result |-> None, unlink |-> TRUE]

\* (changed: an unreadable cached file is left in place)
CachedRead_NoUnlink(r) ==
    IF r.ok
    THEN IF len(r.df) > 0
         THEN [return |-> TRUE, result |-> r.df, unlink |-> FALSE]
         ELSE [return |-> FALSE, result |-> None, unlink |-> FALSE]
    ELSE [return |-> FALSE, result |-> None, unlink |-> FALSE]

\* (changed: an unreadable cached file ends the call with None)
CachedRead_GiveUp(r) ==
    IF r.ok
    THEN IF len(r.df) > 0
         THEN [return |-> TRUE, result |-> r.df, unlink |-> FALSE]
         ELSE [return |-> FALSE, result |-> None, unlink |-> FALSE]
    ELSE [return |-> TRUE, result |-> None, unlink |-> TRUE]

\* (changed: a cached file that is returned is unlinked)
CachedRead_UnlinkOnHit(r) ==
    IF r.ok
    THEN IF len(r.df) > 0
         THEN [return |-> TRUE, result |-> r.df, unlink |-> TRUE]
         ELSE [return |-> FALSE, result |-> None, unlink |-> FALSE]
    ELSE [return |-> FALSE, result |-> None, unlink |-> TRUE]

\* (changed: the len(df) > 0 test is missing)
CachedRead_NoLenCheck(r) ==
    IF r.ok
    THEN [return |-> TRUE, result |-> r.df, unlink |-> FALSE]
    ELSE [return |-> FALSE, result |-> None, unlink |-> TRUE]

\* lines 53-62: what becomes of the read of the cached file: a non-empty
\* frame is returned; an empty one falls through to the download with the
\* file left alone; an exception unlinks the file and falls through
CachedRead(r) ==
    IF r.ok
    THEN IF len(r.df) > 0
         THEN [return |-> TRUE, result |-> r.df, unlink |-> FALSE]
         ELSE [return |-> FALSE, result |-> None, unlink |-> FALSE]
    ELSE [return |-> FALSE, result |-> None, unlink |-> TRUE]

\* pl.read_parquet(cache_file): the file's bytes parsed, an exception when
\* there is no such file
ReadFile(f) ==
    IF f.exists THEN read_parquet(f.bytes) ELSE [ok |-> FALSE, df |-> None]

\* lines 54-62: read the cached file; return it, fall through, or unlink it
ReadCache ==
    /\ pc = "L54"
    /\ LET o == CachedRead(ReadFile(cache[call.cache_file]))
       IN  /\ call' = [call EXCEPT !.reads = @ + 1, !.result = o.result,
                                   !.unlinks = IF o.unlink THEN @ + 1 ELSE @]
           /\ pc' = IF o.return THEN "ret" ELSE "L65"
           /\ cache' = IF o.unlink
                       THEN [cache EXCEPT ![call.cache_file] = NoFile]
                       ELSE cache
    /\ UNCHANGED <<prev, rpc, rng, keys, prep, sect, procs, app>>

\* lines 65-70: build the URL and issue the GET, which answers
DownloadResponse(resp) ==
    /\ pc = "L65"
    /\ call' = [call EXCEPT
                  !.url = get_parquet_url(call.network, call.table, call.date),
                  !.response = resp, !.gets = @ + 1]
    /\ pc' = "L71"
    /\ UNCHANGED <<cache, prev, rpc, rng, keys, prep, sect, procs, app>>

\* lines 65-70, 102-104: the GET raises (no connection): log, return None
DownloadError ==
    /\ pc = "L65"
    /\ call' = [call EXCEPT
                  !.url = get_parquet_url(call.network, call.table, call.date),
                  !.gets = @ + 1, !.result = None]
    /\ pc' = "ret"
    /\ UNCHANGED <<cache, prev, rpc, rng, keys, prep, sect, procs, app>>

\* (changed: an HTTP error other than 404 is raised again)
HTTPErrorHandler_Reraise(status_code) ==
    IF status_code = 404
    THEN [result |-> None, raised |-> ""]
    ELSE [result |-> None, raised |-> "HTTPError"]

\* what the HTTPError handler (lines 95-101) does with a status code:
\* the value returned and the exception that leaves the function
HTTPErrorHandler(status_code) ==
    IF status_code = 404
    THEN [result |-> None, raised |-> ""]
    ELSE [result |-> None, raised |-> ""]

\* (changed: only the 5xx codes count as errors)
raise_for_status_ServerOnly(status_code) ==
    status_code >= 500 /\ status_code < 600

\* response.raise_for_status(): the codes for which it raises HTTPError
raise_for_status(status_code) ==
    status_code >= 400 /\ status_code < 600

\* line 71: response.raise_for_status(), and the handler of lines 95-101
RaiseForStatus ==
    /\ pc = "L71"
    /\ IF raise_for_status(call.response.status_code)
       THEN /\ call' = [call EXCEPT
                  !.result = HTTPErrorHandler(call.response.status_code).result,
                  !.raised = HTTPErrorHandler(call.response.status_code).raised]
            /\ pc' = "ret"
       ELSE /\ pc' = "L74"
            /\ UNCHANGED call
    /\ UNCHANGED <<cache, prev, rpc, rng, keys, prep, sect, procs, app>>

\* line 74: open(cache_file, "wb") creates or truncates the file
OpenCacheFile ==
    /\ pc = "L74"
    /\ cache' = [cache EXCEPT ![call.cache_file] = File(Truncated)]
    /\ pc' = "L75"
    /\ UNCHANGED <<call, prev, rpc, rng, keys, prep, sect, procs, app>>

\* the file the running call has open was unlinked by a concurrent
\* session: it is no more the file of the path
Orphaned == procs.active /\ procs.orphan

\* line 75: f.write(response.content), and the close of the with block;
\* the bytes go to the file that was opened
WriteCacheFile ==
    /\ pc = "L75"
    /\ cache' = IF Orphaned THEN cache
                ELSE [cache EXCEPT
                         ![call.cache_file] = File(call.response.content)]
    /\ call' = [call EXCEPT !.writes = @ + 1]
    /\ pc' = "L81"
    /\ UNCHANGED <<prev, rpc, rng, keys, prep, sect, procs, app>>

\* (changed: the file is unlinked after every read of it)
DownloadedRead_AlwaysUnlink(r) ==
    IF r.ok
    THEN [result |-> IF len(r.df) > 0 THEN r.df ELSE None, unlink |-> TRUE]
    ELSE [result |-> None, unlink |-> TRUE]

\* (changed: a downloaded file that does not parse is left in place)
DownloadedRead_KeepOnError(r) ==
    IF r.ok
    THEN [result |-> IF len(r.df) > 0 THEN r.df ELSE None, unlink |-> FALSE]
    ELSE [result |-> None, unlink |-> FALSE]

\* lines 80-93: what becomes of the read of the downloaded file: a non-empty
\* frame is returned, an empty one gives None with the file left alone, an
\* exception unlinks the file and gives None
DownloadedRead(r) ==
    IF r.ok
    THEN [result |-> IF len(r.df) > 0 THEN r.df ELSE None, unlink |-> FALSE]
    ELSE [result |-> None, unlink |-> TRUE]

\* lines 81-93: read the file just written, and return
ReadDownloaded ==
    /\ pc = "L81"
    /\ LET o == DownloadedRead(ReadFile(cache[call.cache_file]))
       IN  /\ call' = [call EXCEPT !.result = o.result,
                                   !.unlinks = IF o.unlink THEN @ + 1 ELSE @]
           /\ cache' = IF o.unlink
                       THEN [cache EXCEPT ![call.cache_file] = NoFile]
                       ELSE cache
    /\ pc' = "ret"
    /\ UNCHANGED <<prev, rpc, rng, keys, prep, sect, procs, app>>

\* a call downloaded a file that parsed to an empty frame
EmptyDownload(c) ==
    /\ c.response.status_code = 200
    /\ read_parquet(c.response.content).ok
    /\ len(read_parquet(c.response.content).df) = 0

\* what is remembered of a call once it has returned: its key and use_cache,
\* what it returned, how many GETs it issued, and whether it downloaded a
\* file that parsed to an empty frame
Summary(c) ==
    [active |-> TRUE, cache_file |-> c.cache_file, use_cache |-> c.use_cache,
     result |-> c.result, raised |-> c.raised, gets |-> c.gets,
     empty_download |-> EmptyDownload(c)]

\* load_xatu_data returns to a caller other than the range loop
Return ==
    /\ pc = "ret" /\ rpc = "idle"
    /\ prev' = Summary(call)
    /\ call' = NoCall
    /\ pc' = "idle"
    /\ UNCHANGED <<cache, rpc, rng, keys, prep, sect, procs, app>>

(***************************************************************************)
(* load_xatu_data_range(network, table, start_date, end_date, use_cache,   *)
(*                      progress_callback)                                 *)
(***************************************************************************)
\* the frame of a range call: arguments, locals, and what it has done so far
\* (progress: the values the callback received, each the fraction
\* <<numerator, denominator>>; fetched: the dates load_xatu_data was called
\* for; returned: what each of those calls returned)
NewRange(network, table, start_date, end_date, use_cache, progress_callback) ==
    [active |-> TRUE, network |-> network, table |-> table,
     start_date |-> start_date, end_date |-> end_date, use_cache |-> use_cache,
     progress_callback |-> progress_callback,
     dfs |-> <<>>, total_days |-> 0, days_processed |-> 0,
     current_date |-> None, df |-> None,
     result |-> None, raised |-> "",
     progress |-> <<>>, fetched |-> <<>>, returned |-> <<>>]

\* a caller calls load_xatu_data_range
CallRange(network, table, start_date, end_date, use_cache, progress_callback) ==
    /\ pc = "idle" /\ rpc = "idle"
    /\ rng' = NewRange(network, table, start_date, end_date, use_cache,
                       progress_callback)
    /\ rpc' = "L120"
    /\ UNCHANGED <<cache, pc, call, prev, keys, prep, sect, procs, app>>

\* (changed: the order of the dates is not checked)
StartAfterEnd_NoCheck(start_date, end_date) == FALSE

\* line 123: start_date > end_date
StartAfterEnd(start_date, end_date) == start_date.ordinal > end_date.ordinal

\* lines 120-131: the argument checks and the loop's initial values
CheckRange ==
    /\ rpc = "L120"
    /\ IF rng.start_date = None \/ rng.end_date = None
       THEN /\ rng' = [rng EXCEPT !.raised = "ValueError"]
            /\ rpc' = "ret"
       ELSE IF StartAfterEnd(rng.start_date, rng.end_date)
       THEN /\ rng' = [rng EXCEPT !.raised = "ValueError"]
            /\ rpc' = "ret"
       ELSE /\ rng' = [rng EXCEPT
                  !.total_days = rng.end_date.ordinal - rng.start_date.ordinal + 1,
                  !.days_processed = 0,
                  !.current_date = rng.start_date]
            /\ rpc' = "L132"
    /\ UNCHANGED <<cache, pc, call, prev, keys, prep, sect, procs, app>>

\* (changed: the loop stops before end_date)
LoopCondition_Exclusive(current_date, end_date) ==
    current_date.ordinal < end_date.ordinal

\* line 132: current_date <= end_date
LoopCondition(current_date, end_date) ==
    current_date.ordinal <= end_date.ordinal

\* line 132: while current_date <= end_date
LoopTest ==
    /\ rpc = "L132"
    /\ rpc' = IF LoopCondition(rng.current_date, rng.end_date)
              THEN "L133" ELSE "L146"
    /\ UNCHANGED <<cache, pc, call, prev, rng, keys, prep, sect, procs, app>>

\* (changed: the count of days is reported, not divided by total_days)
ProgressValue_Count(days_processed, total_days) == <<days_processed, 1>>

\* (changed: the day about to be fetched counts as processed)
ProgressValue_AfterDay(days_processed, total_days) ==
    <<days_processed + 1, total_days>>

\* line 134: days_processed / total_days, as a fraction
ProgressValue(days_processed, total_days) == <<days_processed, total_days>>

\* lines 133-134: progress_callback(days_processed / total_days)
ReportProgress ==
    /\ rpc = "L133"
    /\ rng' = IF rng.progress_callback
              THEN [rng EXCEPT !.progress =
                        Append(@, ProgressValue(rng.days_processed, rng.total_days))]
              ELSE rng
    /\ rpc' = "L137"
    /\ UNCHANGED <<cache, pc, call, prev, keys, prep, sect, procs, app>>

\* line 137: call load_xatu_data for current_date
FetchDay ==
    /\ rpc = "L137" /\ pc = "idle"
    /\ call' = NewCall(rng.network, rng.table, rng.current_date, rng.use_cache)
    /\ pc' = "L40"
    /\ rng' = [rng EXCEPT !.fetched = Append(@, rng.current_date)]
    /\ rpc' = "L137call"
    /\ UNCHANGED <<cache, prev, keys, prep, sect, procs, app>>

\* line 137: load_xatu_data returns to the range loop
ReturnToRange ==
    /\ pc = "ret" /\ rpc = "L137call"
    /\ prev' = NoCall
    /\ IF call.raised # ""
       THEN /\ rng' = [rng EXCEPT !.raised = call.raised]
            /\ rpc' = "ret"
       ELSE /\ rng' = [rng EXCEPT !.df = call.result,
                                   !.returned = Append(@, call.result)]
            /\ rpc' = "L139"
    /\ call' = NoCall
    /\ pc' = "idle"
    /\ UNCHANGED <<cache, keys, prep, sect, procs, app>>

\* line 139: df is not None and len(df) > 0
KeepFrame(df) == df # None /\ len(df) > 0

\* lines 139-143: keep a non-empty frame; step to the next day
AppendDay ==
    /\ rpc = "L139"
    /\ rng' = [rng EXCEPT
                 !.dfs = IF KeepFrame(rng.df) THEN Append(@, rng.df) ELSE @,
                 !.df = None,
                 !.current_date = Date(@.ordinal + 1),
                 !.days_processed = @ + 1]
    /\ rpc' = "L132"
    /\ UNCHANGED <<cache, pc, call, prev, keys, prep, sect, procs, app>>

\* pl.concat(dfs): the frames' rows in order, or an exception when the
\* schemas differ
\* (changed: the frames are stacked last day first)
RECURSIVE ConcatRows_Reversed(_)
ConcatRows_Reversed(dfs) ==
    IF dfs = <<>> THEN <<>> ELSE ConcatRows_Reversed(Tail(dfs)) \o Head(dfs).rows

RECURSIVE ConcatRows(_)
ConcatRows(dfs) ==
    IF dfs = <<>> THEN <<>> ELSE Head(dfs).rows \o ConcatRows(Tail(dfs))

concat(dfs) ==
    IF \A i \in 1..Len(dfs) : dfs[i].schema = dfs[1].schema
    THEN [ok |-> TRUE, df |-> DataFrame(dfs[1].schema, ConcatRows(dfs))]
    ELSE [ok |-> FALSE, df |-> None]

\* lines 146-156: the value returned for the frames collected, and the
\* exception that leaves the function: the combined frame; None when
\* pl.concat raises (the exception is logged); None when there is no frame
CombineFrames(dfs) ==
    IF dfs # <<>>
    THEN IF concat(dfs).ok
         THEN [result |-> concat(dfs).df, raised |-> ""]
         ELSE [result |-> None, raised |-> ""]
    ELSE [result |-> None, raised |-> ""]

\* lines 146-156: combine the frames collected
Combine ==
    /\ rpc = "L146"
    /\ rng' = [rng EXCEPT !.result = CombineFrames(rng.dfs).result,
                          !.raised = CombineFrames(rng.dfs).raised]
    /\ rpc' = "ret"
    /\ UNCHANGED <<cache, pc, call, prev, keys, prep, sect, procs, app>>

\* load_xatu_data_range returns, or raises, to its caller
ReturnRange ==
    /\ rpc = "ret"
    /\ rng' = NoRange
    /\ rpc' = "idle"
    /\ UNCHANGED <<cache, pc, call, prev, keys, prep, sect, procs, app>>

(***************************************************************************)
(* render of the block arrival dashboard (block_arrival/main.py 31-59)     *)
(***************************************************************************)
\* the time windows offered, in days; config.TIME_WINDOWS offers 1, 7, 31
\* and 90 days, of which the model keeps the one-day window and stands the
\* longer ones in by the windows of 2..NumDays days
TimeWindowDays == 1..NumDays

\* the table the dashboard reads
BLOCK_TABLE == <<"beacon_api_eth_v1_events_block">>

\* render on day `today` for a window of `days` days: end_date is three days
\* back, use_cache = not force_refresh; one day goes to load_xatu_data
RenderSingle(network, today, days, force_refresh) ==
    /\ days = 1
    /\ Date(today - 3) \in Dates
    /\ CallLoad(network, BLOCK_TABLE, Date(today - 3), ~force_refresh)

\* ... and more than one day goes to load_xatu_data_range, with the progress
\* bar as callback
RenderRange(network, today, days, force_refresh) ==
    /\ days # 1
    /\ Date(today - 3) \in Dates
    /\ Date(today - 3 - (days - 1)) \in Dates
    /\ CallRange(network, BLOCK_TABLE, Date(today - 3 - (days - 1)),
                 Date(today - 3), ~force_refresh, TRUE)

Todays == {d.ordinal + 3 : d \in Dates}

\* the steps of load_xatu_data, whoever called it
LoadStep ==
    \/ CheckDate
    \/ CheckCache
    \/ ReadCache
    \/ (pc = "L65" /\ \E resp \in Responses(call.date) : DownloadResponse(resp))
    \/ DownloadError
    \/ RaiseForStatus
    \/ OpenCacheFile
    \/ WriteCacheFile
    \/ ReadDownloaded

\* single-day fetches: the dashboard's one-day window and any other caller
\* of load_xatu_data, one call after the other
Next ==
    \/ \E n \in Networks, t \in Tables, d \in Dates \cup {None}, u \in BOOLEAN :
          CallLoad(n, t, d, u)
    \/ \E n \in Networks, today \in Todays, days \in TimeWindowDays,
          f \in BOOLEAN : RenderSingle(n, today, days, f)
    \/ LoadStep
    \/ Return

Spec == Init /\ [][Next]_vars

\* range fetches: the dashboard's longer windows and any other caller of
\* load_xatu_data_range, one call after the other
NextRange ==
    \/ \E n \in Networks, t \in Tables, s \in Dates \cup {None},
          e \in Dates \cup {None}, u \in BOOLEAN, cb \in BOOLEAN :
          CallRange(n, t, s, e, u, cb)
    \/ \E n \in Networks, today \in Todays, days \in TimeWindowDays,
          f \in BOOLEAN : RenderRange(n, today, days, f)
    \/ CheckRange
    \/ LoopTest
    \/ ReportProgress
    \/ FetchDay
    \/ LoadStep
    \/ ReturnToRange
    \/ AppendDay
    \/ Combine
    \/ ReturnRange

SpecRange == Init /\ [][NextRange]_vars

(***************************************************************************)
(* Properties of load_xatu_data (checked under Spec).                      *)
(***************************************************************************)
\* the cached file a call found decodes to a non-empty frame
ValidEntry(f) ==
    f.exists /\ read_parquet(f.bytes).ok /\ len(read_parquet(f.bytes).df) > 0

\* the cached file a call found does not decode
CorruptEntry(f) == f.exists /\ ~read_parquet(f.bytes).ok

\* a call of load_xatu_data with a date is running or about to return
InCall == pc # "idle" /\ call.date # None

\* such a call is about to return
AtReturn == pc = "ret" /\ call.date # None

\* C1: a call with use_cache=true that finds a cache entry decoding to a
\* non-empty dataset issues no remote GET at any point of the call and
\* returns that dataset.
C1_CacheHit ==
    (InCall /\ call.use_cache /\ ValidEntry(call.entry0))
        => /\ call.gets = 0
           /\ pc = "ret" => call.result = read_parquet(call.entry0.bytes).df

C1_Witness ==
    /\ AtReturn /\ call.use_cache /\ call.entry0 = File(Parquet(FrameB(call.date)))
    /\ call.reads = 1 /\ call.result = FrameB(call.date) /\ call.gets = 0

\* two consecutive calls with use_cache=true for the same key, the second
\* about to return
SecondOfTwo ==
    /\ AtReturn /\ call.use_cache
    /\ prev.active /\ prev.use_cache /\ prev.cache_file = call.cache_file

\* C2 (as claimed): two consecutive use_cache=true calls for the same key
\* issue at most one remote GET in total and the second returns what the
\* first returned, whatever the remote does.
C2_CacheIdempotence_Claimed ==
    SecondOfTwo => /\ prev.gets + call.gets <= 1
                   /\ call.result = prev.result

\* C2 (amended): when the first of two consecutive use_cache=true calls for
\* the same key returns a dataset, the second issues no remote GET (so the
\* two issue at most one in total) and returns the same dataset.
C2_CacheIdempotence ==
    (SecondOfTwo /\ prev.result # None)
        => /\ call.gets = 0
           /\ prev.gets + call.gets <= 1
           /\ call.result = prev.result

C2_Witness ==
    /\ SecondOfTwo /\ prev.result = FrameA(call.date) /\ prev.gets = 1
    /\ call.result = FrameA(call.date) /\ call.gets = 0 /\ call.reads = 1

\* a use_cache=true read of the cache entry has fallen through to the
\* download, whose GET is about to be issued
FellThrough == InCall /\ pc = "L65" /\ call.reads = 1

C4_SelfHeal ==
    (AtReturn /\ call.use_cache /\ CorruptEntry(call.entry0))
        => /\ call.gets = 1
           /\ (call.response.status_code = 200
                 /\ ValidEntry(File(call.response.content)))
                => /\ call.result = read_parquet(call.response.content).df
                   /\ cache[call.cache_file] = File(call.response.content)
                   /\ ValidEntry(cache[call.cache_file])

C4_Witness ==
    /\ AtReturn /\ call.use_cache /\ call.entry0 = File(Garbage)
    /\ call.response.content = Parquet(FrameA(call.date))
    /\ call.result = FrameA(call.date)
    /\ cache[call.cache_file] = File(Parquet(FrameA(call.date)))

\* the GET of the call about to return was answered 404
Got404 == AtReturn /\ call.response.status_code = 404

\* C5 (as claimed): after a 404 the call returns None, has written no cache
\* file, and the cache entry of the key is absent.
C5_NotFound_Claimed ==
    Got404 => /\ call.result = None
              /\ call.writes = 0
              /\ ~cache[call.cache_file].exists

\* C5 (amended): after a 404 the call returns None and has written no cache
\* file; the cache entry of the key is absent if it was absent before the
\* call or was unlinked as undecodable by the call's cache read, and is
\* otherwise (use_cache=false, or an entry decoding to an empty dataset) the
\* entry the call found.
C5_NotFound ==
    Got404 => /\ call.result = None
              /\ call.writes = 0
              /\ cache[call.cache_file] =
                    IF call.use_cache /\ CorruptEntry(call.entry0)
                    THEN NoFile ELSE call.entry0

C5_Witness ==
    /\ Got404 /\ ~call.entry0.exists /\ ~cache[call.cache_file].exists
    /\ call.result = None /\ call.gets = 1

\* the GET of the call about to return failed: an HTTP error status, or no
\* response at all
GetFailed ==
    /\ AtReturn /\ call.gets = 1
    /\ \/ raise_for_status(call.response.status_code)
       \/ call.response = NoResponse

\* C6: a call with a date returns None or a non-empty dataset and raises
\* nothing, whatever the cache holds and whatever the GET and the parse do;
\* after a failed GET it returns None, for a 404 and for any other failure
\* alike.
C6_NeverRaises ==
    /\ AtReturn => /\ call.raised = ""
                   /\ \/ call.result = None
                      \/ call.result \in DataFrames /\ len(call.result) > 0
    /\ GetFailed => call.result = None /\ call.raised = ""

C6_Witness ==
    /\ GetFailed /\ call.response.status_code = 500
    /\ call.result = None /\ call.raised = ""

\* C7: when the read of the downloaded file starts, the downloaded bytes
\* are in the cache file; and when those bytes do not parse, the call
\* returns None with the cache file unlinked.
C7_WriteBeforeParse ==
    /\ (InCall /\ pc = "L81")
          => /\ call.writes = 1
             /\ cache[call.cache_file] = File(call.response.content)
    /\ (AtReturn /\ call.writes = 1 /\ ~read_parquet(call.response.content).ok)
          => /\ call.result = None
             /\ ~cache[call.cache_file].exists

C7_Witness ==
    /\ AtReturn /\ call.writes = 1 /\ call.response.content = Garbage
    /\ call.entry0 = File(Parquet(FrameA(call.date)))
    /\ ~cache[call.cache_file].exists
    /\ call.result = None

\* C8: a call whose download parses to an empty dataset returns None, and
\* the next call for the same key with use_cache=true issues the GET again.
C8_NoNegativeEntry ==
    /\ (AtReturn /\ EmptyDownload(call)) => call.result = None
    /\ (AtReturn /\ call.use_cache /\ prev.active /\ prev.empty_download
          /\ prev.cache_file = call.cache_file) => call.gets = 1

C8_Witness ==
    /\ AtReturn /\ call.use_cache /\ prev.active /\ prev.empty_download
    /\ prev.cache_file = call.cache_file /\ prev.result = None
    /\ call.reads = 1 /\ call.gets = 1

\* C9: a call with use_cache=false never reads the cache entry it finds
\* (line 54), has issued exactly one GET when it returns, and after a
\* successful download has the downloaded bytes in the cache file in place
\* of what was there.
C9_ForceRefresh ==
    (InCall /\ ~call.use_cache)
        => /\ call.reads = 0
           /\ pc \in {"L71", "L74", "L75", "L81", "ret"} => call.gets = 1
           /\ pc = "L81" => cache[call.cache_file] = File(call.response.content)

C9_Witness ==
    /\ InCall /\ ~call.use_cache /\ pc = "L81"
    /\ call.entry0 = File(Parquet(FrameA(call.date)))
    /\ cache[call.cache_file] = File(Parquet(FrameB(call.date)))
    /\ call.reads = 0 /\ call.gets = 1

(***************************************************************************)
(* Properties of load_xatu_data_range (checked under SpecRange).           *)
(***************************************************************************)
\* a range call whose start_date is after its end_date
BadRange(r) ==
    /\ r.active /\ r.start_date # None /\ r.end_date # None
    /\ r.start_date.ordinal > r.end_date.ordinal

\* C10: a range call with start_date > end_date raises ValueError in its
\* first step; no step of the call starts a single-day fetch, invokes the
\* progress callback or changes a cache file.
C10_RangePrecondition ==
    [][BadRange(rng') =>
          /\ cache' = cache
          /\ pc' = "idle"
          /\ rng'.fetched = <<>>
          /\ rng'.progress = <<>>
          /\ rpc = "L120" => (rpc' = "ret" /\ rng'.raised = "ValueError")]_vars

C10_Witness ==
    /\ rpc = "ret" /\ BadRange(rng) /\ rng.raised = "ValueError"
    /\ rng.progress_callback /\ rng.result = None

\* a range call whose dates are in order
GoodRange(r) ==
    /\ r.active /\ r.start_date # None /\ r.end_date # None
    /\ r.start_date.ordinal <= r.end_date.ordinal

\* (end_date - start_date).days + 1
TotalDays(r) == r.end_date.ordinal - r.start_date.ordinal + 1

\* such a call is about to return to its caller
RangeDone == rpc = "ret" /\ GoodRange(rng)

\* C11: for start_date <= end_date the single-day fetcher is called for the
\* days start_date, start_date + 1, ... in that order, one call at a time,
\* and by the time the range call returns it has been called exactly once
\* for every day up to end_date: (end_date - start_date).days + 1 calls,
\* whatever the days returned.
C11_OncePerDay ==
    GoodRange(rng) =>
        /\ Len(rng.fetched) <= TotalDays(rng)
        /\ \A i \in 1..Len(rng.fetched) :
              rng.fetched[i] = Date(rng.start_date.ordinal + i - 1)
        /\ pc # "idle" => /\ rpc = "L137call"
                          /\ call.date = rng.fetched[Len(rng.fetched)]
                          /\ Len(rng.returned) = Len(rng.fetched) - 1
        /\ rpc = "ret" => /\ Len(rng.fetched) = TotalDays(rng)
                          /\ Len(rng.returned) = TotalDays(rng)

C11_Witness ==
    /\ RangeDone /\ Len(rng.fetched) = 3
    /\ rng.fetched[3] = Date(rng.start_date.ordinal + 2)
    /\ rng.returned[1] # None /\ rng.returned[2] = None /\ rng.returned[3] = None

\* a fraction <<a, b>> is less than a fraction <<c, d>> (b, d > 0)
FracLess(x, y) == x[1] * y[2] < y[1] * x[2]

\* C12: with a progress callback, the callback is invoked once before each
\* day's fetch: its k-th invocation (k = 0, 1, ...) receives
\* k / total_days and comes before the k-th fetch; the values it receives
\* increase and lie in [0, 1].
C12_Progress ==
    (GoodRange(rng) /\ rng.progress_callback) =>
        /\ \A i \in 1..Len(rng.progress) :
              /\ rng.progress[i] = <<i - 1, TotalDays(rng)>>
              /\ 0 <= rng.progress[i][1]
              /\ rng.progress[i][1] <= rng.progress[i][2]
        /\ \A i \in 1..(Len(rng.progress) - 1) :
              FracLess(rng.progress[i], rng.progress[i + 1])
        /\ Len(rng.progress) =
              Len(rng.fetched) + (IF rpc = "L137" THEN 1 ELSE 0)

C12_Witness ==
    /\ RangeDone /\ rng.progress_callback
    /\ rng.progress = <<(<<0, 3>>), (<<1, 3>>), (<<2, 3>>)>>
    /\ Len(rng.fetched) = 3

\* a range call with a progress callback has run to completion
RangeCompleted == RangeDone /\ rng.progress_callback /\ rng.raised = ""

\* C13 (as claimed): over a range fetch that runs to completion the first
\* value passed to the progress callback is 0 and the last is 1.
C13_CompleteProgress_Claimed ==
    RangeCompleted =>
        /\ rng.progress[1][1] = 0
        /\ rng.progress[Len(rng.progress)][1] = rng.progress[Len(rng.progress)][2]

\* C13 (amended): over a range fetch that runs to completion the first value
\* passed to the progress callback is 0 and the last is
\* (total_days - 1) / total_days; every value passed is below 1.
C13_CompleteProgress ==
    RangeCompleted =>
        /\ rng.progress[1][1] = 0
        /\ rng.progress[Len(rng.progress)] = <<TotalDays(rng) - 1, TotalDays(rng)>>
        /\ \A i \in 1..Len(rng.progress) : rng.progress[i][1] < rng.progress[i][2]

C13_Witness ==
    /\ RangeCompleted /\ TotalDays(rng) = 3
    /\ rng.progress[1] = <<0, 3>> /\ rng.progress[3] = <<2, 3>>

\* C14: a day whose fetch returns None raises nothing and does not stop the
\* loop (every day of the range is fetched), and the range call returns
\* None if and only if every day returned None.
C14_SkipOnAbsent ==
    RangeDone =>
        /\ rng.raised = ""
        /\ Len(rng.returned) = TotalDays(rng)
        /\ (rng.result = None) <=> (\A i \in 1..Len(rng.returned) : rng.returned[i] = None)

\* the days of a range call that returned a dataset
Present(r) == {i \in 1..Len(r.returned) : r.returned[i] # None}

\* the sum of the row counts of the days in S
RECURSIVE SumRows(_, _)
SumRows(r, S) ==
    IF S = {} THEN 0
    ELSE LET i == CHOOSE j \in S : TRUE
         IN  len(r.returned[i]) + SumRows(r, S \ {i})

\* C15: a dataset returned by the range call holds exactly the rows of the
\* days that returned a dataset, the rows of an earlier day before those of
\* a later day and each day's rows in the day's own order (the rows are
\* stamped with day and position, so this is: the rows ascend), and its row
\* count is the sum of those days' row counts.
C15_Concatenation ==
    (RangeDone /\ rng.result # None) =>
        /\ {rng.result.rows[k] : k \in 1..len(rng.result)} =
              UNION {{rng.returned[i].rows[k] : k \in 1..len(rng.returned[i])} :
                        i \in Present(rng)}
        /\ \A j, k \in 1..len(rng.result) :
              j < k => rng.result.rows[j] < rng.result.rows[k]
        /\ len(rng.result) = SumRows(rng, Present(rng))

C15_Witness ==
    /\ RangeDone /\ rng.result # None /\ Len(rng.returned) = 3
    /\ rng.returned[1] = FrameB(rng.start_date) /\ rng.returned[2] = None
    /\ rng.returned[3] = FrameB(rng.end_date)
    /\ len(rng.result) = 4

\* the frames collected by a range call have different schemas
SchemaMismatch(r) ==
    \E i, j \in 1..Len(r.dfs) : r.dfs[i].schema # r.dfs[j].schema

\* C16: when the days' datasets cannot be concatenated because their schemas
\* differ, the range call raises an error to its caller.
C16_SchemaMismatchRaises ==
    (RangeDone /\ SchemaMismatch(rng)) => rng.raised # ""

(***************************************************************************)
(* Partition keys: the cache file of a (network, table, date) triple       *)
(***************************************************************************)

\* config.py SUPPORTED_NETWORKS, spelled character by character
SUPPORTED_NETWORKS ==
    {<<"m", "a", "i", "n", "n", "e", "t">>,
     <<"h", "o", "l", "e", "s", "k", "y">>,
     <<"s", "e", "p", "o", "l", "i", "a">>}

\* table names passed to load_xatu_data, spelled character by character:
\* the block events table of the dashboards and the head events table
BeaconApiEvents ==
    <<"b", "e", "a", "c", "o", "n", "_", "a", "p", "i", "_", "e", "t", "h",
      "_", "v", "1", "_", "e", "v", "e", "n", "t", "s", "_">>
KeyTables ==
    {BeaconApiEvents \o <<"b", "l", "o", "c", "k">>,
     BeaconApiEvents \o <<"h", "e", "a", "d">>}

\* a partition key
Key(network, table, date) ==
    [network |-> network, table |-> table, date |-> date]
Keys == {Key(n, t, d) : n \in SUPPORTED_NETWORKS, t \in KeyTables, d \in Dates}
KeyFile(k) == CacheFile(k.network, k.table, k.date)

\* the cache directory holds any file, or none, for two keys; fetches will
\* be made for the first of them
InitKeys ==
    /\ \E a \in Keys, b \in Keys :
          /\ cache \in [{KeyFile(a), KeyFile(b)} ->
                         {NoFile} \cup {File(x) : x \in FileBytes(a.date)
                                                      \cup FileBytes(b.date)}]
          /\ cache[KeyFile(a)] \in {NoFile} \cup {File(x) : x \in FileBytes(a.date)}
          /\ cache[KeyFile(b)] \in {NoFile} \cup {File(x) : x \in FileBytes(b.date)}
          /\ keys = [active |-> TRUE, fetched |-> a, other |-> b,
                     other0 |-> cache[KeyFile(b)]]
    /\ pc = "idle"
    /\ call = NoCall
    /\ prev = NoCall
    /\ rpc = "idle"
    /\ rng = NoRange
    /\ prep = NoPrep
    /\ sect = NoSect
    /\ procs = NoProcs
    /\ app = NoApp

\* a caller fetches the first key, once: the cache states a later fetch
\* would start from are initial states as well
FetchKey ==
    /\ keys.active
    /\ prev = NoCall
    /\ \E use_cache \in BOOLEAN :
          CallLoad(keys.fetched.network, keys.fetched.table,
                   keys.fetched.date, use_cache)

NextKeys ==
    \/ FetchKey
    \/ LoadStep
    \/ Return

SpecKeys == InitKeys /\ [][NextKeys]_vars

\* C17: two different (network, table, date) keys have different cache
\* files, and a fetch for one key works on its own file only: the file of
\* the other key is never the one the call reads, writes or unlinks, and
\* stays what it was.
C17_DistinctKeys ==
    (keys.active /\ keys.fetched # keys.other) =>
        /\ KeyFile(keys.fetched) # KeyFile(keys.other)
        /\ InCall => call.cache_file # KeyFile(keys.other)
        /\ cache[KeyFile(keys.other)] = keys.other0

\* a fetch wrote the file of its key while the other key, of the same
\* network and table but another date, has a file in the cache
C17_Witness ==
    /\ keys.active
    /\ keys.fetched.network = keys.other.network
    /\ keys.fetched.table = keys.other.table
    /\ keys.fetched.date # keys.other.date
    /\ pc = "ret" /\ call.writes = 1
    /\ cache[KeyFile(keys.other)].exists
    /\ cache[KeyFile(keys.fetched)] # keys.other0

(***************************************************************************)
(* preprocess_data(df, network) of the block arrival dashboard              *)
(***************************************************************************)

MaxRows == 4

\* the columns of an observation that preprocess_data reads: the slot and
\* the epoch of the block, and the delay in ms from the start of the slot
\* to the moment the block was seen
\* (slot, epoch) of the blocks observed: they differ in the slot only, in
\* the epoch only, or in both with the same digits when run together
Blocks == {<<30, 12>>, <<301, 2>>, <<30, 2>>}
Delays == {200, 6000, 7500}

\* event_date_time in ms since midnight of the first day: the block was
\* seen propagation_slot_start_diff ms after the start of its 12 s slot
EventTime(slot, diff) == 12000 * slot + diff

RawRow(slot, epoch, diff) ==
    [slot |-> slot, epoch |-> epoch, propagation_slot_start_diff |-> diff,
     event_date_time |-> EventTime(slot, diff)]
RawRows == {RawRow(b[1], b[2], d) : b \in Blocks, d \in Delays}

\* an observation of a frame that has no propagation_slot_start_diff column
BareRow(slot, epoch) ==
    [slot |-> slot, epoch |-> epoch, event_date_time |-> EventTime(slot, 0)]
BareRows == {BareRow(b[1], b[2]) : b \in Blocks}

\* what a caller can pass as df: a polars or a pandas frame of 1..MaxRows
\* observations, such a frame of one observation with a column missing,
\* or an object that is neither
InputFrames ==
    [kind : {"polars", "pandas"},
     rows : UNION {[1..k -> RawRows] : k \in 1..MaxRows}]
        \cup [kind : {"polars", "pandas"}, rows : [1..1 -> BareRows]]
        \cup {[kind |-> "other", rows |-> <<>>]}

\* the columns the expressions of preprocess_data name
RequiredColumns ==
    {"propagation_slot_start_diff", "event_date_time", "slot", "epoch"}

\* every one of them is a column of the frame
HasColumns(df) ==
    \A i \in 1..Len(df.rows) : RequiredColumns \subseteq DOMAIN df.rows[i]

\* pl.from_pandas: the same rows in a polars frame
from_pandas(df) == [kind |-> "polars", rows |-> df.rows]

\* cast(pl.Utf8) of an unsigned integer column
Utf8(n) == Digits(n)

\* lines 48-54: the when/then/otherwise of capped_diff_ms
capped_diff_ms_NoCap(diff) == diff

capped_diff_ms(diff) == IF diff > 6000 THEN 6000 ELSE diff

\* lines 59-61: dt.hour()
hour(t) == (t \div 3600000) % 24

\* lines 66-68: the block identifier
block_id_NoSeparator(slot, epoch) == Utf8(slot) \o Utf8(epoch)

block_id(slot, epoch) == Utf8(slot) \o <<"_">> \o Utf8(epoch)

\* lines 48-68: the columns added to a row
WithColumns(r, network) ==
    [slot |-> r.slot, epoch |-> r.epoch,
     propagation_slot_start_diff |-> r.propagation_slot_start_diff,
     event_date_time |-> r.event_date_time,
     capped_diff_ms |-> capped_diff_ms(r.propagation_slot_start_diff),
     network |-> network,
     hour |-> hour(r.event_date_time),
     block_id |-> block_id(r.slot, r.epoch)]

\* a column of a frame, as a sequence
Column(df, name) == [i \in 1..Len(df) |-> df[i][name]]

\* min(), and the sum behind mean(), of a column
MinOf(col) == CHOOSE x \in {col[i] : i \in 1..Len(col)} :
                  \A i \in 1..Len(col) : x <= col[i]
RECURSIVE SumOf(_)
SumOf(col) == IF col = <<>> THEN 0 ELSE Head(col) + SumOf(Tail(col))

\* a fraction num/den kept exact, as <<num, den>>
mean(col) == <<SumOf(col), Len(col)>>

Sorted(col) == SortSeq(col, LAMBDA a, b : a < b)

\* median(): the middle value, or the midpoint of the two middle values
median(col) ==
    LET n == Len(col)
        t == Sorted(col)
    IN  IF n % 2 = 1 THEN <<2 * t[(n + 1) \div 2], 2>>
        ELSE <<t[n \div 2] + t[n \div 2 + 1], 2>>

\* quantile(num/den) with the default interpolation "nearest": the sorted
\* value at index round((n - 1) * num/den), counted from 0, halves rounded up
quantile(col, num, den) ==
    Sorted(col)[(2 * num * (Len(col) - 1) + den) \div (2 * den) + 1]

\* line 72: the rows that group_by("block_id") puts in the group of an id
Group_FirstOnly(df, id) ==
    <<df[CHOOSE i \in 1..Len(df) :
            df[i].block_id = id /\ \A j \in 1..(i - 1) : df[j].block_id # id]>>

Group(df, id) == SelectSeq(df, LAMBDA r : r.block_id = id)

\* lines 72-82: the aggregates of one group
BlockRow(id, g) ==
    [block_id |-> id,
     slot |-> g[1].slot,
     epoch |-> g[1].epoch,
     first_seen_time |-> MinOf(Column(g, "event_date_time")),
     min_propagation_ms |-> MinOf(Column(g, "capped_diff_ms")),
     mean_propagation_ms |-> mean(Column(g, "capped_diff_ms")),
     median_propagation_ms |-> median(Column(g, "capped_diff_ms")),
     p90_propagation_ms |-> quantile(Column(g, "capped_diff_ms"), 9, 10),
     num_observations |-> Len(g),
     hour |-> g[1].hour]

\* lines 72-82: block_stats, one row per group; group_by leaves the order
\* of its rows open, so they are kept as a set
BlockStats(df) ==
    {BlockRow(id, Group(df, id)) : id \in {df[i].block_id : i \in 1..Len(df)}}

\* line 87: the when() of the slow flag
SlowFlag_OrEqual(capped, threshold) == capped >= threshold

SlowFlag(capped, threshold) == capped > threshold

\* lines 86-91: the slow flag of every row against one threshold
WithSlowFlag(df) ==
    LET threshold == quantile(Column(df, "capped_diff_ms"), 3, 4)
    IN  [i \in 1..Len(df) |->
            [slot |-> df[i].slot, epoch |-> df[i].epoch,
             propagation_slot_start_diff |-> df[i].propagation_slot_start_diff,
             event_date_time |-> df[i].event_date_time,
             capped_diff_ms |-> df[i].capped_diff_ms,
             network |-> df[i].network,
             hour |-> df[i].hour,
             block_id |-> df[i].block_id,
             is_slow_propagation |-> SlowFlag(df[i].capped_diff_ms, threshold)]]

\* lines 22-98 on a polars frame
Normalize(df, network) ==
    LET cols == [i \in 1..Len(df.rows) |-> WithColumns(df.rows[i], network)]
    IN  [raw |-> WithSlowFlag(cols),
         block_stats |-> BlockStats(cols),
         network |-> network]

\* lines 28-32: neither pandas nor polars
Unsupported ==
    [out |-> None, raised |-> "", st_error |-> "Unsupported DataFrame type"]

\* lines 100-104: the handler of any exception of the try block
ExceptionHandler_Reraise(e) ==
    [out |-> None, raised |-> e, st_error |-> "Error in preprocess_data"]

ExceptionHandler(e) ==
    [out |-> None, raised |-> "", st_error |-> "Error in preprocess_data"]

\* lines 34-98 in the try block: an expression that names a column the
\* frame does not have raises
TryNormalize(df, network) ==
    IF HasColumns(df)
    THEN [out |-> Normalize(df, network), raised |-> "", st_error |-> ""]
    ELSE ExceptionHandler("ColumnNotFoundError")

\* preprocess_data: the value returned, the exception left to the caller
\* and the message shown with st.error
preprocess_data(df, network) ==
    IF df.kind = "pandas" THEN TryNormalize(from_pandas(df), network)
    ELSE IF df.kind # "polars" THEN Unsupported
    ELSE TryNormalize(df, network)

\* render (main.py line 72) has called preprocess_data on some frame
InitPrep ==
    /\ \E df \in InputFrames, network \in Networks :
          prep = [active |-> TRUE, pc |-> "called", df |-> df,
                  network |-> network, out |-> None, raised |-> "",
                  st_error |-> ""]
    /\ cache = [p \in Paths |-> NoFile]
    /\ pc = "idle"
    /\ call = NoCall
    /\ prev = NoCall
    /\ rpc = "idle"
    /\ rng = NoRange
    /\ keys = NoKeys
    /\ sect = NoSect
    /\ procs = NoProcs
    /\ app = NoApp

\* the call runs and returns
PreprocessData ==
    /\ prep.active /\ prep.pc = "called"
    /\ prep' = [prep EXCEPT
                    !.out = preprocess_data(prep.df, prep.network).out,
                    !.raised = preprocess_data(prep.df, prep.network).raised,
                    !.st_error = preprocess_data(prep.df, prep.network).st_error,
                    !.pc = "done"]
    /\ UNCHANGED <<cache, pc, call, prev, rpc, rng, keys, sect, procs, app>>

NextPrep == PreprocessData

SpecPrep == InitPrep /\ [][NextPrep]_vars

(***************************************************************************)
(* Properties of preprocess_data                                           *)
(***************************************************************************)

\* preprocess_data has returned a result
PrepDone == prep.active /\ prep.pc = "done" /\ prep.out # None

\* the input rows of the call
InRows == prep.df.rows

\* C18: every normalized row has capped_diff_ms = min(
\* propagation_slot_start_diff, 6000); no capped value of the normalized
\* rows and no min, median or p90 of block_stats is above 6000.
C18_Capping ==
    PrepDone =>
        /\ Len(prep.out.raw) = Len(InRows)
        /\ \A i \in 1..Len(InRows) :
              LET d == InRows[i].propagation_slot_start_diff
                  c == prep.out.raw[i].capped_diff_ms
              IN  /\ c <= 6000 /\ c <= d
                  /\ c = 6000 \/ c = d
        /\ \A b \in prep.out.block_stats :
              /\ b.min_propagation_ms <= 6000
              /\ b.median_propagation_ms[1] <= 6000 * b.median_propagation_ms[2]
              /\ b.p90_propagation_ms <= 6000

\* a delay of 7500 came out as 6000 and a delay of 200 as 200
C18_Witness ==
    /\ PrepDone
    /\ \E i, j \in 1..Len(InRows) :
          /\ InRows[i].propagation_slot_start_diff = 7500
          /\ prep.out.raw[i].capped_diff_ms = 6000
          /\ InRows[j].propagation_slot_start_diff = 200
          /\ prep.out.raw[j].capped_diff_ms = 200

\* C19: two normalized rows have the same block_id exactly when they have
\* the same slot and the same epoch.
C19_BlockIdentity ==
    PrepDone =>
        \A i, j \in 1..Len(prep.out.raw) :
            (prep.out.raw[i].block_id = prep.out.raw[j].block_id)
                <=> (/\ InRows[i].slot = InRows[j].slot
                     /\ InRows[i].epoch = InRows[j].epoch)

\* the digits of slot and epoch run together to the same text for two
\* rows of different blocks, and a third row repeats a block
C19_Witness ==
    /\ PrepDone
    /\ \E i, j, k \in 1..Len(InRows) :
          /\ InRows[i].slot = 30 /\ InRows[i].epoch = 12
          /\ InRows[j].slot = 301 /\ InRows[j].epoch = 2
          /\ prep.out.raw[i].block_id # prep.out.raw[j].block_id
          /\ k # i /\ InRows[k].slot = 30 /\ InRows[k].epoch = 12
          /\ prep.out.raw[k].block_id = prep.out.raw[i].block_id

\* the input rows of a block_id
RowsOf(id) == {i \in 1..Len(InRows) : prep.out.raw[i].block_id = id}

RECURSIVE SumObservations(_)
SumObservations(rows) ==
    IF rows = {} THEN 0
    ELSE LET b == CHOOSE x \in rows : TRUE
         IN  b.num_observations + SumObservations(rows \ {b})

\* C20: block_stats has exactly one row per block_id of the input; its
\* num_observations is the number of input rows of that block_id, the
\* counts add up to the number of input rows, and its min_propagation_ms
\* is the least capped delay of those rows.
C20_BlockStats ==
    PrepDone =>
        /\ \A i \in 1..Len(InRows) :
              Cardinality({b \in prep.out.block_stats :
                              b.block_id = prep.out.raw[i].block_id}) = 1
        /\ \A b \in prep.out.block_stats :
              /\ RowsOf(b.block_id) # {}
              /\ b.num_observations = Cardinality(RowsOf(b.block_id))
              /\ \E i \in RowsOf(b.block_id) :
                    b.min_propagation_ms = prep.out.raw[i].capped_diff_ms
              /\ \A i \in RowsOf(b.block_id) :
                    b.min_propagation_ms <= prep.out.raw[i].capped_diff_ms
        /\ SumObservations(prep.out.block_stats) = Len(InRows)

\* three observations of two blocks: a block seen twice with two delays,
\* the smaller of them its minimum, and a block seen once
C20_Witness ==
    /\ PrepDone
    /\ Len(InRows) = 3
    /\ \E b, c \in prep.out.block_stats :
          /\ b.num_observations = 2 /\ c.num_observations = 1
          /\ b.min_propagation_ms = 200
          /\ \E i \in RowsOf(b.block_id) : prep.out.raw[i].capped_diff_ms = 6000

\* the capped delays of the normalized rows below, and up to, a value
Below(t) == {i \in 1..Len(InRows) : prep.out.raw[i].capped_diff_ms < t}
UpTo(t) == {i \in 1..Len(InRows) : prep.out.raw[i].capped_diff_ms <= t}

\* t is a 75th percentile of the capped delays: one of them, with at most
\* three quarters of the rows below it and at least three quarters up to it
IsP75(t) ==
    /\ \E i \in 1..Len(InRows) : prep.out.raw[i].capped_diff_ms = t
    /\ 4 * Cardinality(Below(t)) <= 3 * Len(InRows)
    /\ 4 * Cardinality(UpTo(t)) >= 3 * Len(InRows)

\* C21: there is one threshold for the whole call, a 75th percentile of
\* capped_diff_ms over all rows, and is_slow_propagation is true exactly
\* for the rows strictly above it: rows at the threshold are not slow, and
\* no row is slow when all capped delays are equal.
C21_SlowFlag ==
    PrepDone =>
        /\ \E t \in {200, 6000} :
              /\ IsP75(t)
              /\ \A i \in 1..Len(InRows) :
                    prep.out.raw[i].is_slow_propagation
                        <=> prep.out.raw[i].capped_diff_ms > t
        /\ (\A i, j \in 1..Len(InRows) :
                prep.out.raw[i].capped_diff_ms = prep.out.raw[j].capped_diff_ms)
            => \A i \in 1..Len(InRows) : ~prep.out.raw[i].is_slow_propagation

\* four observations, three of 200 ms and one above the cap: the threshold
\* is 200, the rows at it are not slow and the capped row is
C21_Witness ==
    /\ PrepDone
    /\ Len(InRows) = 4
    /\ Cardinality(UpTo(200)) = 3
    /\ \E i \in 1..4 :
          /\ InRows[i].propagation_slot_start_diff = 7500
          /\ prep.out.raw[i].is_slow_propagation
    /\ \A i \in UpTo(200) : ~prep.out.raw[i].is_slow_propagation

\* preprocess_data has returned, or raised
PrepReturned == prep.active /\ prep.pc = "done"

\* the input is neither a pandas nor a polars frame
UnsupportedInput == prep.df.kind \notin {"pandas", "polars"}

\* the input makes the try block raise
RaisingInput == ~UnsupportedInput /\ ~HasColumns(prep.df)

\* a failure value that carries the class of the error
Failure(class) == [failure |-> class]

\* C22 as claimed: an unsupported input, or an exception while normalizing,
\* gives the caller a failure instead of a result, of class TypeError for
\* the unsupported input, with no exception propagating.
C22_NormalizerFailure_Claimed ==
    PrepReturned =>
        /\ UnsupportedInput =>
              prep.out = Failure("TypeError") /\ prep.raised = ""
        /\ RaisingInput =>
              /\ "raw" \notin DOMAIN prep.out
              /\ prep.raised = ""

\* C22: an unsupported input, or an exception while normalizing, makes
\* preprocess_data return None, with no raw or block_stats, after showing
\* an error message; no exception propagates, and None carries no error
\* class: the unsupported input and the exception give the same value.
C22_NormalizerFailure ==
    PrepReturned =>
        /\ (UnsupportedInput \/ RaisingInput) =>
              /\ prep.out = None
              /\ prep.raised = ""
              /\ prep.st_error # ""
        /\ (~UnsupportedInput /\ ~RaisingInput) =>
              /\ prep.out # None
              /\ prep.raised = "" /\ prep.st_error = ""

\* a frame without the delay column was passed and None came back
C22_Witness ==
    /\ PrepReturned
    /\ RaisingInput
    /\ prep.out = None
    /\ prep.st_error = "Error in preprocess_data"

(***************************************************************************)
(* render_client_analysis_section: the CDF of one entity (a client         *)
(* implementation, lines 130-161, or a country, lines 267-298)             *)
(***************************************************************************)

MaxObs == 4

\* capped_diff_ms of the observations of the entity
CappedDelays == {10, 25, 40, 60, 6000}

\* how round(0) settles a value half way between two integers: away from
\* zero, or to the even one, depending on the polars build
HalfRules == {"away", "even"}

\* (capped_diff_ms.round(0) / 50).round(0) * 50
Bucket(v, half) ==
    LET q == v \div 50
        r == v % 50
        up == IF r # 25 THEN r > 25
              ELSE IF half = "away" THEN TRUE ELSE q % 2 = 1
    IN  IF up THEN 50 * (q + 1) ELSE 50 * q

\* lines 136-139: the bucketed times of the entity, sorted
Times(delays, half) ==
    Sorted([i \in 1..Len(delays) |-> Bucket(delays[i], half)])

\* current_time: None before the first pass, a time after it
Time(t) == [time |-> t]

\* line 147: the bucket value changes
NewBucket_Always(time, current_time) == TRUE

NewBucket(time, current_time) == Time(time) # current_time

\* line 151: the last observation
IsLast_Never(i, n) == FALSE

IsLast(i, n) == i = n - 1

\* line 132 / 269: the entity's rows are selected; its delays are any
\* 0..MaxObs capped delays
InitCdf ==
    /\ \E delays \in UNION {[1..k -> CappedDelays] : k \in 0..MaxObs},
          half \in HalfRules :
          sect = [active |-> TRUE, pc |-> "L134", delays |-> delays,
                  half |-> half, times |-> <<>>, i |-> 0,
                  unique_times |-> <<>>, percentiles |-> <<>>,
                  current_time |-> None, cdf_data |-> <<>>]
    /\ cache = [p \in Paths |-> NoFile]
    /\ pc = "idle"
    /\ call = NoCall
    /\ prev = NoCall
    /\ rpc = "idle"
    /\ rng = NoRange
    /\ keys = NoKeys
    /\ prep = NoPrep
    /\ procs = NoProcs
    /\ app = NoApp

\* lines 134-145: an entity without rows is passed over; else its times
\* are bucketed and sorted and the two lists start empty
BucketTimes ==
    /\ sect.active /\ sect.pc = "L134"
    /\ IF Len(sect.delays) > 0
       THEN sect' = [sect EXCEPT !.times = Times(sect.delays, sect.half),
                                 !.pc = "L146"]
       ELSE sect' = [sect EXCEPT !.pc = "done"]
    /\ UNCHANGED <<cache, pc, call, prev, rpc, rng, keys, prep, procs, app>>

\* lines 146-153: one pass of the loop over the sorted times; a percentile
\* (i + 1) / len(times) is kept as <<i + 1, len(times)>>
LoopPass ==
    /\ sect.active /\ sect.pc = "L146"
    /\ sect.i < Len(sect.times)
    /\ LET i == sect.i
           n == Len(sect.times)
           time == sect.times[i + 1]
       IN  IF NewBucket(time, sect.current_time)
           THEN sect' = [sect EXCEPT
                            !.unique_times = Append(@, time),
                            !.percentiles = Append(@, <<i + 1, n>>),
                            !.current_time = Time(time),
                            !.i = i + 1]
           ELSE IF IsLast(i, n)
           THEN sect' = [sect EXCEPT
                            !.percentiles[Len(sect.percentiles)] = <<i + 1, n>>,
                            !.i = i + 1]
           ELSE sect' = [sect EXCEPT !.i = i + 1]
    /\ UNCHANGED <<cache, pc, call, prev, rpc, rng, keys, prep, procs, app>>

\* lines 155-161: the points of the entity are added to cdf_data
EmitPoints ==
    /\ sect.active /\ sect.pc = "L146"
    /\ sect.i = Len(sect.times)
    /\ sect' = [sect EXCEPT
                  !.cdf_data = [k \in 1..Len(sect.unique_times) |->
                                   [propagation_ms |-> sect.unique_times[k],
                                    percentile |-> sect.percentiles[k]]],
                  !.pc = "done"]
    /\ UNCHANGED <<cache, pc, call, prev, rpc, rng, keys, prep, procs, app>>

NextCdf ==
    \/ BucketTimes
    \/ LoopPass
    \/ EmitPoints

SpecCdf == InitCdf /\ [][NextCdf]_vars

(***************************************************************************)
(* Properties of the CDF                                                   *)
(***************************************************************************)

\* the CDF of an entity with observations has been emitted
CdfDone == sect.active /\ sect.pc = "done" /\ Len(sect.delays) > 0

\* the points emitted
Points == sect.cdf_data

\* C23: the points of an entity with at least one observation, in bucket
\* order, have non-decreasing probabilities, the first above 0, all of
\* them at most 1 and the last exactly 1, also when the last bucket holds
\* more than one observation.
C23_CdfShape ==
    CdfDone =>
        /\ Len(Points) >= 1
        /\ \A k \in 1..Len(Points) :
              /\ Points[k].percentile[2] = Len(sect.delays)
              /\ Points[k].percentile[1] <= Points[k].percentile[2]
        /\ \A k \in 1..(Len(Points) - 1) :
              /\ Points[k].propagation_ms <= Points[k + 1].propagation_ms
              /\ Points[k].percentile[1] <= Points[k + 1].percentile[1]
        /\ Points[1].percentile[1] > 0
        /\ Points[Len(Points)].percentile[1] = Points[Len(Points)].percentile[2]

\* four observations in two buckets, two of them in the last bucket, and
\* the last point has probability 4/4
C23_Witness ==
    /\ CdfDone
    /\ Len(sect.times) = 4
    /\ sect.times[3] = sect.times[4] /\ sect.times[2] # sect.times[3]
    /\ Len(Points) = 2
    /\ Points[2].percentile = <<4, 4>>

\* the bucketed values of the entity's observations
Buckets == {Bucket(sect.delays[j], sect.half) : j \in 1..Len(sect.delays)}

\* C24: the points of an entity are one per distinct 50 ms bucket of its
\* observations, with strictly increasing bucket values.
C24_PointPerBucket ==
    CdfDone =>
        /\ {Points[k].propagation_ms : k \in 1..Len(Points)} = Buckets
        /\ Len(Points) = Cardinality(Buckets)
        /\ \A k \in 1..Len(Points) : Points[k].propagation_ms % 50 = 0
        /\ \A k \in 1..(Len(Points) - 1) :
              Points[k].propagation_ms < Points[k + 1].propagation_ms

\* delays 40 and 60 share the bucket 50 and 6000 has its own: two points
C24_Witness ==
    /\ CdfDone
    /\ \E a, b, c \in 1..Len(sect.delays) :
          sect.delays[a] = 40 /\ sect.delays[b] = 60 /\ sect.delays[c] = 6000
    /\ Len(sect.delays) = 3
    /\ Len(Points) = 2
    /\ Points[1].propagation_ms = 50 /\ Points[2].propagation_ms = 6000

\* the number of the entity's observations with a bucket up to b
CumulativeCount(b) ==
    Cardinality({j \in 1..Len(sect.delays) :
                    Bucket(sect.delays[j], sect.half) <= b})

\* C25: the probability of every point is the number of the entity's
\* observations with a bucketed value up to the point's bucket, over the
\* number of its observations.
C25_CumulativeProbability ==
    CdfDone =>
        \A k \in 1..Len(Points) :
            Points[k].percentile =
                <<CumulativeCount(Points[k].propagation_ms), Len(sect.delays)>>

(***************************************************************************)
(* render_client_analysis_section: the performance table and the filter    *)
(* of the comparison chart (lines 56-76; for countries, lines 246-252)     *)
(***************************************************************************)

\* values of the entity column
Entities == {"lighthouse", "prysm", "teku"}

\* how many rows of raw_df each entity can have
RowCounts ==
    [Entities -> {0, 9, 10, 11, 12, 13, 1177, 1178}]

\* the frames rendered: render returns before, on an empty frame
SampleFrames ==
    {c \in RowCounts : c["lighthouse"] <= 13 /\ c["prysm"] \in 9..12
                        /\ c["teku"] \in {9, 1177, 1178}}

RECURSIVE SumCounts(_, _)
SumCounts(c, S) ==
    IF S = {} THEN 0
    ELSE LET e == CHOOSE x \in S : TRUE IN c[e] + SumCounts(c, S \ {e})

\* raw_df.shape[0]
Shape0(c) == SumCounts(c, Entities)

\* lines 74-76: sample_count > max(10, raw_df.shape[0] * 0.01), both sides
\* taken a hundredfold: the float product is the exact hundredth when that
\* is an integer, and on the same side of every integer otherwise
EnoughSamples_AtLeast(sample_count, rows) ==
    100 * sample_count >= (IF rows > 1000 THEN rows ELSE 1000)

EnoughSamples(sample_count, rows) ==
    100 * sample_count > (IF rows > 1000 THEN rows ELSE 1000)

InitPerf ==
    /\ \E c \in SampleFrames :
          sect = [active |-> TRUE, pc |-> "L57", counts |-> c,
                  client_perf |-> {}, client_perf_pd |-> {}]
    /\ cache = [p \in Paths |-> NoFile]
    /\ pc = "idle"
    /\ call = NoCall
    /\ prev = NoCall
    /\ rpc = "idle"
    /\ rng = NoRange
    /\ keys = NoKeys
    /\ prep = NoPrep
    /\ procs = NoProcs
    /\ app = NoApp

\* lines 57-63: one row per entity that has rows, with its sample_count
GroupPerf ==
    /\ sect.active /\ sect.pc = "L57"
    /\ sect' = [sect EXCEPT
                  !.client_perf =
                      {[entity |-> e, sample_count |-> sect.counts[e]] :
                          e \in {x \in Entities : sect.counts[x] > 0}},
                  !.pc = "L74"]
    /\ UNCHANGED <<cache, pc, call, prev, rpc, rng, keys, prep, procs, app>>

\* lines 74-76: the rows kept for the chart
FilterPerf ==
    /\ sect.active /\ sect.pc = "L74"
    /\ sect' = [sect EXCEPT
                  !.client_perf_pd =
                      {r \in sect.client_perf :
                          EnoughSamples(r.sample_count, Shape0(sect.counts))},
                  !.pc = "done"]
    /\ UNCHANGED <<cache, pc, call, prev, rpc, rng, keys, prep, procs, app>>

NextPerf ==
    \/ GroupPerf
    \/ FilterPerf

SpecPerf == InitPerf /\ [][NextPerf]_vars

\* the entities of the comparison chart
Charted == {r.entity : r \in sect.client_perf_pd}

\* C26: an entity is in the comparison chart exactly when its sample count
\* is above 10 and above one hundredth of the number of rows; an entity
\* with exactly 10 samples, or exactly 1% of the rows, is not.
C26_SmallSampleFilter ==
    (sect.active /\ sect.pc = "done") =>
        \A e \in Entities :
            e \in Charted <=>
                /\ sect.counts[e] > 10
                /\ 100 * sect.counts[e] > Shape0(sect.counts)

\* 1200 rows: the entity with 12 of them, exactly 1%, and the entity with
\* 10 are left out, the entity with 1178 is in the chart
C26_Witness ==
    /\ sect.active /\ sect.pc = "done"
    /\ Shape0(sect.counts) = 1200
    /\ sect.counts["lighthouse"] = 12 /\ sect.counts["prysm"] = 10
    /\ Charted = {"teku"}

(***************************************************************************)
(* Two sessions call load_xatu_data for the same key at the same time.     *)
(* pc and call are those of the session that is running; procs holds the   *)
(* other session's, and the two change places between any two steps.      *)
(* Both write their whole content from the start of the file: the later    *)
(* write is what the file holds.                                           *)
(***************************************************************************)

\* the keys of the dashboards
RaceKeys == {Key(n, t, d) : n \in Networks, t \in Tables, d \in Dates}

\* the unlinks a call has made
Unlinks(c) == IF c.active THEN c.unlinks ELSE 0

\* the call is between open() and write(): it holds an open file
HoldsFile(p) == p = "L75"

InitRace ==
    /\ \E k \in RaceKeys :
          /\ cache \in [Paths -> {NoFile} \cup {File(x) : x \in FileBytes(k.date)}]
          /\ \A q \in Paths \ {KeyFile(k)} : cache[q] = NoFile
          /\ keys = [active |-> TRUE, fetched |-> k, other |-> k,
                     other0 |-> cache[KeyFile(k)]]
    /\ pc = "idle"
    /\ call = NoCall
    /\ prev = NoCall
    /\ rpc = "idle"
    /\ rng = NoRange
    /\ prep = NoPrep
    /\ sect = NoSect
    /\ procs = [active |-> TRUE, pc |-> "idle", call |-> NoCall,
                orphan |-> FALSE, orphan_other |-> FALSE, base |-> 0]
    /\ app = NoApp

\* the running session is suspended and the other one runs on; an open
\* file of the session that resumes is orphaned when the suspended one
\* has unlinked the path while it ran
Switch ==
    /\ procs.active
    /\ pc' = procs.pc
    /\ call' = procs.call
    /\ procs' = [procs EXCEPT
                   !.pc = pc,
                   !.call = call,
                   !.orphan = procs.orphan_other
                              \/ (HoldsFile(procs.pc) /\ Unlinks(call) > procs.base),
                   !.orphan_other = procs.orphan,
                   !.base = Unlinks(procs.call)]
    /\ UNCHANGED <<cache, prev, rpc, rng, keys, prep, sect, app>>

NextRace ==
    \/ FetchKey
    \/ LoadStep
    \/ Switch

SpecRace == InitRace /\ [][NextRace]_vars

\* the running call got a 200 response with a non-empty dataset
GoodDownload ==
    /\ call.active
    /\ call.response.status_code = 200
    /\ read_parquet(call.response.content).ok
    /\ len(read_parquet(call.response.content).df) > 0

\* the other session has opened the cache file for writing, or unlinked it
OtherTouched ==
    \/ /\ procs.pc \in {"L75", "L81", "ret"}
       /\ procs.call.gets > 0
       /\ procs.call.response.status_code = 200
    \/ Unlinks(procs.call) > 0

\* C27: of two concurrent calls for one key, a call whose download
\* succeeded returns None, or is left without its cache entry, only after
\* the other call has opened the cache file for writing or unlinked it
\* (an interleaving in which it does happen is C27_Witness).
C27_SameKeyRace ==
    (/\ procs.active /\ pc = "ret" /\ GoodDownload
     /\ \/ call.result = None
        \/ cache[call.cache_file] # File(call.response.content))
        => OtherTouched

\* a call with a good download returned None and has no cache entry: the
\* other call found the file open and empty, and unlinked it as corrupt
C27_Witness ==
    /\ procs.active /\ pc = "ret" /\ GoodDownload
    /\ call.result = None
    /\ ~cache[call.cache_file].exists
    /\ procs.call.active /\ procs.call.use_cache /\ procs.call.reads = 1
    /\ Unlinks(procs.call) = 1

(***************************************************************************)
(* Properties of sequences of load_xatu_data calls                         *)
(***************************************************************************)

\* C28: in any sequence of calls, one after the other, a call that returns
\* a dataset leaves at its return a cache file for its key that decodes to
\* exactly the dataset returned.
C28_ReturnedIsCached ==
    (AtReturn /\ call.result # None) =>
        /\ cache[call.cache_file].exists
        /\ read_parquet(cache[call.cache_file].bytes).ok
        /\ read_parquet(cache[call.cache_file].bytes).df = call.result

\* after an earlier call, a forced refresh over a valid entry returned the
\* other dataset it downloaded, and the cache file decodes to it
C28_Witness ==
    /\ AtReturn /\ prev.active /\ ~call.use_cache
    /\ call.entry0 = File(Parquet(FrameA(call.date)))
    /\ call.result = FrameB(call.date)
    /\ cache[call.cache_file] = File(Parquet(FrameB(call.date)))

\* C29: a call that returns None leaves a cache entry that was valid and
\* non-empty before the call in place, with the bytes it had.
C29_AbsentKeepsEntry ==
    (AtReturn /\ ValidEntry(call.entry0) /\ call.result = None
        /\ call.raised = "")
        => cache[call.cache_file] = call.entry0

\* the same, for the calls that wrote nothing: a 404, another HTTP error
\* or a failed connection leave the valid entry in place
C29_NoWriteKeepsEntry ==
    (AtReturn /\ ValidEntry(call.entry0) /\ call.result = None
        /\ call.writes = 0)
        => cache[call.cache_file] = call.entry0

(***************************************************************************)
(* app.py: the URL of a dashboard and the session a URL starts             *)
(***************************************************************************)

\* strings are spelled character by character
Home ==
    <<"H", "o", "m", "e">>
home ==
    <<"h", "o", "m", "e">>

\* config.py DASHBOARDS: the names
DASHBOARDS ==
    {
     <<"B", "l", "o", "c", "k", " ", "A", "r", "r", "i", "v", "a", "l",
       " ", "T", "i", "m", "e", "s">>,
     <<"X", "a", "t", "u", " ", "U", "s", "e", "r", " ", "D", "e", "e",
       "p", " ", "D", "i", "v", "e">>,
     <<"N", "o", "d", "e", " ", "D", "e", "e", "p", " ", "D", "i", "v",
       "e">>}

\* config.py TIME_WINDOWS: the names
TIME_WINDOWS ==
    {
     <<"1", " ", "d", "a", "y">>,
     <<"7", " ", "d", "a", "y", "s">>,
     <<"3", "1", " ", "d", "a", "y", "s">>,
     <<"9", "0", " ", "d", "a", "y", "s">>}

\* config.py DEFAULT_TIME_WINDOW_INDEX: list(TIME_WINDOWS.keys())[0]
DefaultTimeWindow ==
    <<"1", " ", "d", "a", "y">>

\* SUPPORTED_NETWORKS[0]
DefaultNetwork ==
    <<"m", "a", "i", "n", "n", "e", "t">>

UpperLetters ==
    <<"A", "B", "C", "D", "E", "F", "G", "H", "I", "J", "K", "L", "M", "N",
      "O", "P", "Q", "R", "S", "T", "U", "V", "W", "X", "Y", "Z">>
LowerLetters ==
    <<"a", "b", "c", "d", "e", "f", "g", "h", "i", "j", "k", "l", "m", "n",
      "o", "p", "q", "r", "s", "t", "u", "v", "w", "x", "y", "z">>

\* str.lower()
lower(t) ==
    [i \in 1..Len(t) |->
        IF \E k \in 1..26 : UpperLetters[k] = t[i]
        THEN LowerLetters[CHOOSE k \in 1..26 : UpperLetters[k] = t[i]]
        ELSE t[i]]

\* str.replace(a, b) for single characters
replace(t, a, b) == [i \in 1..Len(t) |-> IF t[i] = a THEN b ELSE t[i]]

\* urllib.parse.quote_plus on letters, digits, "-" and " "
quote_plus(t) == replace(t, " ", "+")

\* the decoding of a query value: "+" is a space
unquote_plus(t) == replace(t, "+", " ")

\* line 48: the slug of a dashboard name
dashboard_slug(dashboard_name) ==
    IF dashboard_name # Home THEN replace(lower(dashboard_name), " ", "-")
    ELSE home

\* lines 47-54: the query string, as its key=value parts
get_dashboard_url(dashboard_name, session_state) ==
    [dashboard |-> quote_plus(dashboard_slug(dashboard_name)),
     network |-> quote_plus(session_state.network),
     time_window |-> quote_plus(session_state.time_window)]

\* st.query_params of a session opened with a query string
parse_qsl(url) ==
    [dashboard |-> unquote_plus(url.dashboard),
     network |-> unquote_plus(url.network),
     time_window |-> unquote_plus(url.time_window)]

\* lines 21-26
InitialNetwork(query_params) ==
    IF query_params.network \in SUPPORTED_NETWORKS
    THEN query_params.network ELSE DefaultNetwork

\* lines 27-32
InitialTimeWindow(query_params) ==
    IF query_params.time_window \in TIME_WINDOWS
    THEN query_params.time_window ELSE DefaultTimeWindow

\* lines 33-44
InitialDashboard(query_params) ==
    IF query_params.dashboard = home THEN Home
    ELSE IF query_params.dashboard \in DASHBOARDS THEN query_params.dashboard
    ELSE Home

\* a session with some network and time window shows the sidebar, and the
\* button of some dashboard is pressed
InitApp ==
    /\ \E n \in SUPPORTED_NETWORKS, w \in TIME_WINDOWS,
          d \in {Home} \cup DASHBOARDS :
          app = [active |-> TRUE, pc |-> "L89", dashboard |-> d,
                 session_state |-> [network |-> n, time_window |-> w,
                                    current_dashboard |-> Home],
                 dashboard_url |-> <<>>, query_params |-> <<>>,
                 fresh |-> <<>>]
    /\ cache = [p \in Paths |-> NoFile]
    /\ pc = "idle"
    /\ call = NoCall
    /\ prev = NoCall
    /\ rpc = "idle"
    /\ rng = NoRange
    /\ keys = NoKeys
    /\ prep = NoPrep
    /\ sect = NoSect
    /\ procs = NoProcs

\* lines 89-90: the button sets current_dashboard and builds the URL
PressButton ==
    /\ app.active /\ app.pc = "L89"
    /\ app' = [app EXCEPT
                 !.session_state.current_dashboard = app.dashboard,
                 !.dashboard_url =
                     get_dashboard_url(app.dashboard, app.session_state),
                 !.pc = "L92"]
    /\ UNCHANGED <<cache, pc, call, prev, rpc, rng, keys, prep, sect, procs>>

\* lines 92-94: the URL parameters are set from the URL
UpdateUrlParams ==
    /\ app.active /\ app.pc = "L92"
    /\ app' = [app EXCEPT !.query_params = parse_qsl(app.dashboard_url),
                          !.pc = "L16"]
    /\ UNCHANGED <<cache, pc, call, prev, rpc, rng, keys, prep, sect, procs>>

\* lines 16-44: a new session is opened at that URL: its session state is
\* empty and is initialized from the URL parameters
OpenSession ==
    /\ app.active /\ app.pc = "L16"
    /\ app' = [app EXCEPT
                 !.fresh = [network |-> InitialNetwork(app.query_params),
                            time_window |-> InitialTimeWindow(app.query_params),
                            current_dashboard |->
                                InitialDashboard(app.query_params)],
                 !.pc = "done"]
    /\ UNCHANGED <<cache, pc, call, prev, rpc, rng, keys, prep, sect, procs>>

NextApp ==
    \/ PressButton
    \/ UpdateUrlParams
    \/ OpenSession

SpecApp == InitApp /\ [][NextApp]_vars

\* a new session has been opened at the URL of a dashboard
Opened == app.active /\ app.pc = "done"

\* C30: a new session opened at the URL of a dashboard has that dashboard
\* as current_dashboard, and the network and the time window the URL was
\* built from.
C30_UrlRoundTrip ==
    Opened =>
        /\ app.fresh.current_dashboard = app.dashboard
        /\ app.fresh.network = app.session_state.network
        /\ app.fresh.time_window = app.session_state.time_window

\* the part that holds: network and time window come back, and so does
\* Home; the URL of any other dashboard opens Home
C30_OpensHome ==
    Opened =>
        /\ app.fresh.current_dashboard = Home
        /\ app.fresh.network = app.session_state.network
        /\ app.fresh.time_window = app.session_state.time_window

====
